---- MODULE Spec2Model ----
(***************************************************************************)
(* A model of the crate slippy_map_tilenames (src/src/lib.rs): the four    *)
(* free functions lonlat2tile, tile2lonlat, zoom_in, zoom_out, and the     *)
(* thread/channel scenario of tests::test_multithreading.                  *)
(*                                                                         *)
(* u32 values.  TLC's integers are 32-bit signed, so a u32 is held as the  *)
(* pair <<hi, lo>> of its two 16-bit halves (value hi * 2^16 + lo).  All   *)
(* u32 arithmetic below is done on the halves with explicit carries, so    *)
(* the width of the Rust type, and its overflow, is kept.                  *)
(***************************************************************************)
EXTENDS Integers, Naturals, Sequences, FiniteSets, TLC

VARIABLES
    build,      \* "debug" (overflow checks on: `2 * x` panics on overflow) or "release" (it wraps)
    op,         \* the call last made: "none", "zoom_in", "zoom_out", "in_out", "out_in", "nav_in", ...
    arg,        \* the tile <<x, y>> the call was made on
    zi,         \* what zoom_in did: [panic |-> BOOLEAN, val |-> <<t1, t2, t3, t4>>]; val is << >> when it
                \* panicked (nothing is returned) and when it was not called
    zo,         \* what zoom_out returned: a sequence of tiles, one per zoom_out call made
    zoom,       \* navigation: the zoom level tracked beside the tile
    steps,      \* repeated zoom_out: the number of applications so far
    geo,        \* conversions: the pair <<lon, lat>> of f64 values given to lonlat2tile or returned by tile2lonlat
    dev,        \* conversions: how the platform's rounding fell in lonlat2tile's y (see RoundingDev)
    tpc,        \* threads: where each spawned thread is: "run", "send", "exit", "done" or "panicked"
    tval,       \* threads: the message each thread has built, <<tag, <<string, string>>>>
    chan,       \* threads: the mpsc channel's queue of messages sent and not yet received
    txs,        \* threads: the Sender handles alive (tx1..tx4, one owned by each thread)
    rpc,        \* threads: the receiving loop: "loop", "done" or "panicked"
    got         \* threads: the messages the loop has received, in order

convVars == <<geo, dev>>

thrVars == <<tpc, tval, chan, txs, rpc, got>>

vars == <<build, op, arg, zi, zo, zoom, steps, geo, dev, tpc, tval, chan, txs, rpc, got>>

None == "none"

\* zoom_in was not called
NoZi == [panic |-> FALSE, val |-> << >>]

\* ------------------------------------------------------------------ u32

Half == 2^16

U32Zero == <<0, 0>>

U32One == <<0, 1>>

\* u32::MAX = 4294967295
U32Max == <<Half - 1, Half - 1>>

IsU32(u) == /\ u \in Seq(Nat)
            /\ Len(u) = 2
            /\ u[1] < Half
            /\ u[2] < Half

\* the u32 of a TLC integer 0 <= n < 2^31
ToU32(n) == <<n \div Half, n % Half>>

\* the tile of two TLC integers
Tile(m, n) == <<ToU32(m), ToU32(n)>>

\* `a + b` on u32: the wrapped sum and whether the true sum left the type
AddU32(a, b) ==
    LET lo == a[2] + b[2]
        hi == a[1] + b[1] + (lo \div Half)
    IN  [val |-> <<hi % Half, lo % Half>>, ovf |-> hi >= Half]

\* `a - b` on u32, wrapped (used only to build sample values)
SubU32(a, b) ==
    LET lo == a[2] - b[2]
        hi == a[1] - b[1] + (lo \div Half)
    IN  <<hi % Half, lo % Half>>

\* `2 * x` on u32: the wrapped product and whether the true product left the type
Mul2U32(x) ==
    LET lo == 2 * x[2]
        hi == 2 * x[1] + (lo \div Half)
    IN  [val |-> <<hi % Half, lo % Half>>, ovf |-> hi >= Half]

\* `x / 2` on u32 (integer division: the low bit of hi moves into lo)
Div2U32(x) == <<x[1] \div 2, (x[2] \div 2) + (x[1] % 2) * (Half \div 2)>>

LtU32(a, b) == a[1] < b[1] \/ (a[1] = b[1] /\ a[2] < b[2])

\* 2^z as a u32, 0 <= z <= 31
Pow2U32(z) == IF z < 16 THEN <<0, 2^z>> ELSE <<2^(z - 16), 0>>

\* the integer of a u32 below 2^31
ValU32(u) == u[1] * Half + u[2]

\* ------------------------------------------------------------------ f64
\* An f64 is held as [k, v]: k is "nan", "inf" (+infinity), "ninf"
\* (-infinity) or "fin" (finite, v says which number).  What v counts depends
\* on the quantity, and is chosen so that every value the conversions meet
\* at zoom <= ZoomCap is held exactly:
\*   a longitude   v / 2^(ZoomCap - 3) degrees.  x / 2^zoom * 360 - 180 is
\*                 x * 45 * 2^(3 - zoom) - 180, a multiple of 2^(3 - zoom) below
\*                 2^9: it and each step that leads to it fit the 53 bits of an
\*                 f64, so the f64 arithmetic on longitudes is exact;
\*   a latitude    the latitude whose Mercator ordinate
\*                 (1 - ln(tan(lat) + 1/cos(lat)) / pi) / 2 is v / 2^ZoomCap: the
\*                 latitude of the upper edge of tile row y at zoom z is
\*                 v = y * 2^(ZoomCap - z).  v = 2^(ZoomCap - 1) is the latitude 0.0;
\*   a tile count  (the value `as u32` is applied to) v is its floor.

\* the largest zoom the conversions are modelled at
ZoomCap == 20

F64(k, v) == [k |-> k, v |-> v]

NaN == F64("nan", 0)

PosInf == F64("inf", 0)

NegInf == F64("ninf", 0)

Fin(v) == F64("fin", v)

F64Zero == Fin(0)

\* longitude units per degree
LonOne == 2^(ZoomCap - 3)

\* the latitude 0.0
LatEquator == Fin(2^(ZoomCap - 1))

\* `f as u32` (the Rust Reference, "Numeric cast": a float-to-integer cast
\* rounds towards zero, NaN gives 0, and a value beyond the integer type,
\* infinities included, gives the nearest bound of the type).  A finite count
\* held here is below 2^31, so the upper bound is met by +infinity only.
CastU32(f) ==
    CASE f.k = "nan"  -> U32Zero
      [] f.k = "inf"  -> U32Max
      [] f.k = "ninf" -> U32Zero
      [] OTHER        -> IF f.v < 0 THEN U32Zero ELSE ToU32(f.v)

\* ---------------------------------------------------------- lonlat2tile

\* How the rounding of lat.to_radians(), tan, cos, ln and the divisions fell:
\* the sign of (the f64 value handed to `as u32`) - (the real number the
\* formula stands for).  std documents the precision of tan, cos and ln as
\* unspecified ("can vary by platform"), so any of the three can happen.
RoundingDev == {-1, 0, 1}

\* TileCountX without the shift by 180 degrees: lon / 360 * zz
TileCountX_unshifted(lon, z) ==
    CASE lon.k = "nan"  -> NaN
      [] lon.k = "inf"  -> PosInf
      [] lon.k = "ninf" -> NegInf
      [] OTHER          -> Fin(lon.v \div (45 * 2^(ZoomCap - z)))

\* ( (lon + 180) / 360 * zz ), the value cast to x
TileCountX(lon, z) ==
    CASE lon.k = "nan"  -> NaN
      [] lon.k = "inf"  -> PosInf
      [] lon.k = "ninf" -> NegInf
      [] OTHER          -> Fin((lon.v + 180 * LonOne) \div (45 * 2^(ZoomCap - z)))

\* ( 1 - ln(tan(lat_rad) + 1 / cos(lat_rad)) / PI ) / 2 * zz, the value cast to
\* y.  tan and cos of an infinity are NaN, and NaN goes through every later
\* step.  At latitude 0.0 every step is exact (tan 0 = 0, cos 0 = 1, ln 1 = 0).
\* Elsewhere the f64 value is the real one moved by the rounding: when the
\* real value is a whole number n and the rounding fell below, the f64 value
\* is just under n and its floor is n - 1.
TileCountY(lat, z, d) ==
    CASE lat.k \in {"nan", "inf", "ninf"} -> NaN
      [] OTHER ->
           LET rows  == 2^(ZoomCap - z)
               whole == lat.v % rows = 0
               below == lat # LatEquator /\ d < 0
           IN  Fin((lat.v \div rows) - (IF whole /\ below THEN 1 ELSE 0))

\* src/src/lib.rs 71-77
lonlat2tile(lon, lat, z, d) == <<CastU32(TileCountX(lon, z)), CastU32(TileCountY(lat, z, d))>>

\* ---------------------------------------------------------- tile2lonlat

\* src/src/lib.rs 114-119, for x, y < 2^z and z <= ZoomCap
\*   lon = x / zz * 360 - 180
\*   lat = atan(sinh(PI * (1 - 2 y / zz))) in degrees: the latitude of Mercator
\*         ordinate y / zz
tile2lonlat(x, y, z) ==
    <<Fin(ValU32(x) * 45 * 2^(ZoomCap - z) - 180 * LonOne), Fin(ValU32(y) * 2^(ZoomCap - z))>>

\* no thread scenario is running
NoThreads ==
    /\ tpc = << >>
    /\ tval = << >>
    /\ chan = << >>
    /\ txs = 0
    /\ rpc = None
    /\ got = << >>

\* ------------------------------------------------------------- zoom_in

\* rustc's arithmetic: with overflow checks (debug) an overflowing `2 * x` or
\* `x2 + 1` panics; without them (release) it wraps.
Checked(b, r) == [panic |-> (b = "debug" /\ r.ovf), val |-> r.val]

\* zoom_in with the top-right and bottom-left tiles in each other's place
zoom_in_transposed(b, x, y) ==
    LET x2  == Checked(b, Mul2U32(x))
        y2  == Checked(b, Mul2U32(y))
        x21 == Checked(b, AddU32(x2.val, U32One))
        y21 == Checked(b, AddU32(y2.val, U32One))
        p   == x2.panic \/ y2.panic \/ x21.panic \/ y21.panic
    IN  [panic |-> p,
         val   |-> IF p THEN << >>
                   ELSE << <<x2.val, y2.val>>, <<x2.val, y21.val>>,
                           <<x21.val, y2.val>>, <<x21.val, y21.val>> >>]

\* zoom_in stepping to the second column and row by 2 instead of 1
zoom_in_step2(b, x, y) ==
    LET x2  == Checked(b, Mul2U32(x))
        y2  == Checked(b, Mul2U32(y))
        x21 == Checked(b, AddU32(x2.val, <<0, 2>>))
        y21 == Checked(b, AddU32(y2.val, <<0, 2>>))
        p   == x2.panic \/ y2.panic \/ x21.panic \/ y21.panic
    IN  [panic |-> p,
         val   |-> IF p THEN << >>
                   ELSE << <<x2.val, y2.val>>, <<x21.val, y2.val>>,
                           <<x2.val, y21.val>>, <<x21.val, y21.val>> >>]

\* src/src/lib.rs 171-175
zoom_in(b, x, y) ==
    LET x2  == Checked(b, Mul2U32(x))
        y2  == Checked(b, Mul2U32(y))
        x21 == Checked(b, AddU32(x2.val, U32One))
        y21 == Checked(b, AddU32(y2.val, U32One))
        p   == x2.panic \/ y2.panic \/ x21.panic \/ y21.panic
    IN  [panic |-> p,
         val   |-> IF p THEN << >>
                   ELSE << <<x2.val, y2.val>>, <<x21.val, y2.val>>,
                           <<x2.val, y21.val>>, <<x21.val, y21.val>> >>]

\* ------------------------------------------------------------ zoom_out

\* zoom_out rounding the halves up instead of down
zoom_out_ceil(x, y) == <<Div2U32(AddU32(x, U32One).val), Div2U32(AddU32(y, U32One).val)>>

\* zoom_out taking both halves from x
zoom_out_xx(x, y) == <<Div2U32(x), Div2U32(x)>>

\* zoom_out halving as if the coordinates were signed (the top bit is kept)
zoom_out_signed(x, y) ==
    LET sar(u) == <<(u[1] \div 2) + (u[1] \div (Half \div 2)) * (Half \div 2),
                    (u[2] \div 2) + (u[1] % 2) * (Half \div 2)>>
    IN  <<sar(x), sar(y)>>

\* src/src/lib.rs 228-230
zoom_out(x, y) == <<Div2U32(x), Div2U32(y)>>

\* ------------------------------------------------------------- inputs

\* how far around each anchor the sampled u32 values reach
NearMax == 2

\* the anchors: 0 (and, wrapping downwards, u32::MAX), 2^16 (the carry between
\* the halves) and 2^31 (where doubling leaves the type)
Anchors == {U32Zero, <<1, 0>>, <<Half \div 2, 0>>}

\* the u32 values calls are made on: the anchors' neighbourhoods and the
\* values of the crate's own tests (1, 5, 7)
SampleU32 ==
    UNION { { AddU32(a, ToU32(d)).val : d \in 0..NearMax }
            \cup { SubU32(a, ToU32(d)) : d \in 1..(NearMax + 1) } : a \in Anchors }
    \cup {ToU32(1), ToU32(5), ToU32(7)}

SampleTile == SampleU32 \X SampleU32

Builds == {"debug", "release"}

\* ------------------------------------------------- single calls (Spec)
\* One behaviour is one use of the hierarchy functions on a sampled tile, in
\* a build of either kind.

Init ==
    /\ build \in Builds
    /\ op = None
    /\ arg = <<U32Zero, U32Zero>>
    /\ zi = NoZi
    /\ zo = << >>
    /\ zoom = 0
    /\ steps = 0
    /\ geo = <<F64Zero, F64Zero>>
    /\ dev = 0
    /\ NoThreads

\* a call zoom_in(x, y)
CallZoomIn ==
    /\ op = None
    /\ \E t \in SampleTile :
        /\ op' = "zoom_in"
        /\ arg' = t
        /\ zi' = zoom_in(build, t[1], t[2])
        /\ zo' = << >>
        /\ UNCHANGED <<build, zoom, steps, convVars, thrVars>>

\* a call zoom_out(x, y)
CallZoomOut ==
    /\ op = None
    /\ \E t \in SampleTile :
        /\ op' = "zoom_out"
        /\ arg' = t
        /\ zi' = NoZi
        /\ zo' = <<zoom_out(t[1], t[2])>>
        /\ UNCHANGED <<build, zoom, steps, convVars, thrVars>>

\* zoom_in(x, y), then zoom_out on each of the four tiles it returned
\* (nothing is returned, so nothing is zoomed out, when zoom_in panicked)
CallInThenOut ==
    /\ op = None
    /\ \E t \in SampleTile :
        LET r == zoom_in(build, t[1], t[2])
        IN  /\ op' = "in_out"
            /\ arg' = t
            /\ zi' = r
            /\ zo' = IF r.panic THEN << >>
                     ELSE [i \in 1..4 |-> zoom_out(r.val[i][1], r.val[i][2])]
            /\ UNCHANGED <<build, zoom, steps, convVars, thrVars>>

\* zoom_out(x, y), then zoom_in on the tile it returned
CallOutThenIn ==
    /\ op = None
    /\ \E t \in SampleTile :
        LET p == zoom_out(t[1], t[2])
        IN  /\ op' = "out_in"
            /\ arg' = t
            /\ zo' = <<p>>
            /\ zi' = zoom_in(build, p[1], p[2])
            /\ UNCHANGED <<build, zoom, steps, convVars, thrVars>>

Next == CallZoomIn \/ CallZoomOut \/ CallInThenOut \/ CallOutThenIn

Spec == Init /\ [][Next]_vars

\* ------------------------------------------ navigation (SpecNav)
\* A walk in the hierarchy from the root tile (0, 0) of zoom 0, the zoom level
\* kept beside the tile: down to one of the four tiles zoom_in returns while
\* zoom < 31, up to the tile zoom_out returns while zoom > 0.

\* the deepest zoom of the walk: 2^31 tiles a side is the most whose doubled
\* coordinates fit a u32
ZoomLimit == 32 - 1

\* below this zoom the walk may go down to any of the four children; from it
\* on, to keep the walk finite, only to the bottom-right one (the largest
\* coordinates of the level)
NavFullZoom == 3

InitNav ==
    /\ build \in Builds
    /\ op = None
    /\ arg = <<U32Zero, U32Zero>>
    /\ zi = NoZi
    /\ zo = << >>
    /\ zoom = 0
    /\ steps = 0
    /\ geo = <<F64Zero, F64Zero>>
    /\ dev = 0
    /\ NoThreads

NavIn ==
    /\ op # "nav_panic"
    /\ zoom < ZoomLimit
    /\ \E i \in (IF zoom < NavFullZoom THEN 1..4 ELSE {4}) :
          LET r == zoom_in(build, arg[1], arg[2])
          IN  /\ zi' = r
              /\ zo' = << >>
              /\ IF r.panic
                    THEN op' = "nav_panic" /\ UNCHANGED <<arg, zoom>>
                    ELSE op' = "nav_in" /\ arg' = r.val[i] /\ zoom' = zoom + 1
    /\ UNCHANGED <<build, steps, convVars, thrVars>>

NavOut ==
    /\ op # "nav_panic"
    /\ zoom > 0
    /\ op' = "nav_out"
    /\ arg' = zoom_out(arg[1], arg[2])
    /\ zo' = <<arg'>>
    /\ zi' = NoZi
    /\ zoom' = zoom - 1
    /\ UNCHANGED <<build, steps, convVars, thrVars>>

NextNav == NavIn \/ NavOut

SpecNav == InitNav /\ [][NextNav]_vars

\* ------------------------------------- repeated zoom_out (SpecIter)
\* zoom_out applied again and again from a sampled tile; zo keeps every
\* result in order, so zo[k] is the tile after k applications.

\* how many applications a behaviour makes at most
IterMax == 34

InitIter ==
    /\ build \in Builds
    /\ op = None
    /\ arg \in SampleTile
    /\ zi = NoZi
    /\ zo = << >>
    /\ zoom = 0
    /\ steps = 0
    /\ geo = <<F64Zero, F64Zero>>
    /\ dev = 0
    /\ NoThreads

IterOut ==
    /\ steps < IterMax
    /\ LET cur == IF zo = << >> THEN arg ELSE zo[Len(zo)]
       IN  zo' = Append(zo, zoom_out(cur[1], cur[2]))
    /\ op' = "iter_out"
    /\ steps' = steps + 1
    /\ UNCHANGED <<build, arg, zi, zoom, convVars, thrVars>>

NextIter == IterOut

SpecIter == InitIter /\ [][NextIter]_vars

\* ------------------------------------------- conversions (SpecConv)
\* One behaviour is one use of the conversions: tile2lonlat on a valid tile,
\* lonlat2tile on a pair of f64 values, or the first followed by the second
\* at the same zoom.

\* how far around 0, 2^(z-1) and 2^z - 1 the sampled tile coordinates reach
ConvNear == 1

\* the tile coordinates sampled at zoom z, all valid (below 2^z)
ConvCoords(z) ==
    LET n   == 2^z
        mid == n \div 2
    IN  (0..ConvNear \cup (mid - ConvNear)..(mid + ConvNear) \cup (n - 1 - ConvNear)..(n - 1))
        \cap 0..(n - 1)

\* 12.3046875 and 45.460130637921, the coordinates of the crate's tests: the
\* f64 values tile2lonlat(4376, 2932, 13) returns (tests::test_t2l_basic)
TestLon == Fin(4376 * 45 * 2^(ZoomCap - 13) - 180 * LonOne)

TestLat == Fin(2932 * 2^(ZoomCap - 13))

SampleLon == {NaN, PosInf, NegInf, F64Zero, Fin(-180 * LonOne), Fin(-181 * LonOne), TestLon}

SampleLat == {NaN, PosInf, NegInf, LatEquator, Fin(0), Fin(-1), TestLat}

SampleZoom == {0, 1, 13, ZoomCap}

InitConv ==
    /\ build \in Builds
    /\ op = None
    /\ arg = <<U32Zero, U32Zero>>
    /\ zi = NoZi
    /\ zo = << >>
    /\ zoom = 0
    /\ steps = 0
    /\ geo = <<F64Zero, F64Zero>>
    /\ dev = 0
    /\ NoThreads

\* a call tile2lonlat(x, y, z)
CallTile2LonLat ==
    /\ op = None
    /\ \E z \in 0..ZoomCap : \E x, y \in ConvCoords(z) :
          /\ op' = "t2l"
          /\ arg' = Tile(x, y)
          /\ zoom' = z
          /\ geo' = tile2lonlat(ToU32(x), ToU32(y), z)
    /\ UNCHANGED <<build, zi, zo, steps, dev, thrVars>>

\* a call lonlat2tile(lon, lat, z)
CallLonLat2Tile ==
    /\ op = None
    /\ \E lon \in SampleLon, lat \in SampleLat, z \in SampleZoom, d \in RoundingDev :
          /\ op' = "l2t"
          /\ geo' = <<lon, lat>>
          /\ zoom' = z
          /\ dev' = d
          /\ zo' = <<lonlat2tile(lon, lat, z, d)>>
    /\ UNCHANGED <<build, arg, zi, steps, thrVars>>

\* tile2lonlat(x, y, z), then lonlat2tile on what it returned, at zoom z
CallRoundTrip ==
    /\ op = None
    /\ \E z \in 0..ZoomCap : \E x, y \in ConvCoords(z) : \E d \in RoundingDev :
          LET g == tile2lonlat(ToU32(x), ToU32(y), z)
          IN  /\ op' = "t2l_l2t"
              /\ arg' = Tile(x, y)
              /\ zoom' = z
              /\ geo' = g
              /\ dev' = d
              /\ zo' = <<lonlat2tile(g[1], g[2], z, d)>>
    /\ UNCHANGED <<build, zi, steps, thrVars>>

NextConv == CallTile2LonLat \/ CallLonLat2Tile \/ CallRoundTrip

SpecConv == InitConv /\ [][NextConv]_vars

\* ----------------------------------------------------------- formatting

Digit(d) == <<"0", "1", "2", "3", "4", "5", "6", "7", "8", "9">>[d + 1]

\* the decimal digits of a natural number
RECURSIVE DecStr(_)
DecStr(n) == IF n < 10 THEN Digit(n) ELSE DecStr(n \div 10) \o Digit(n % 10)

\* u32 / 10 and u32 % 10 on the halves
DivMod10(u) ==
    LET rest == (u[1] % 10) * Half + u[2]
    IN  [q |-> <<u[1] \div 10, rest \div 10>>, r |-> rest % 10]

\* u32::to_string
RECURSIVE U32Str(_)
U32Str(u) ==
    LET dm == DivMod10(u)
    IN  IF dm.q = U32Zero THEN Digit(dm.r) ELSE U32Str(dm.q) \o Digit(dm.r)

\* a number of `milli` thousandths, written with three decimals
Fixed3(neg, milli) ==
    LET f == milli % 1000
    IN  (IF neg THEN "-" ELSE "") \o DecStr(milli \div 1000) \o "."
        \o Digit(f \div 100) \o Digit((f \div 10) % 10) \o Digit(f % 10)

\* n / d rounded to the nearest whole number, a tie to the even one
RoundHalfEven(n, d) ==
    LET q == n \div d
        r == n % d
    IN  IF 2 * r > d \/ (2 * r = d /\ q % 2 = 1) THEN q + 1 ELSE q

Abs(n) == IF n < 0 THEN -n ELSE n

\* format!("{:.3}", lon): the exact value rounded to three decimals
FormatLon3(lon) ==
    CASE lon.k = "nan"  -> "NaN"
      [] lon.k = "inf"  -> "inf"
      [] lon.k = "ninf" -> "-inf"
      [] OTHER ->
           LET a == Abs(lon.v)
           IN  Fixed3(lon.v < 0,
                      (a \div LonOne) * 1000 + RoundHalfEven((a % LonOne) * 1000, LonOne))

\* The latitude in degrees of a Mercator ordinate, atan(sinh(PI * (1 - 2 y / zz)))
\* .to_degrees(), worked out in fixed point (26 binary places, every
\* intermediate below 2^31): accurate to about 0.00001 degree, which is what
\* its three printed decimals need.
FxOne == 2^26

\* PI in fixed point: 3.14159265... * 2^26
PiFx == 210828714

\* (180 / PI) / 4 in fixed point: to_degrees' factor, quartered to stay below 16
QuarterDegPerRadFx == 961263669

\* a * b / 2^26 for 0 <= a, b < 2^30, by 15-bit halves
MulFx(a, b) ==
    LET a1 == a \div 2^15
        a0 == a % 2^15
        b1 == b \div 2^15
        b0 == b % 2^15
    IN  a1 * b1 * 16 + ((a1 * b0 + a0 * b1) \div 2^11) + ((a0 * b0) \div 2^26)

\* sinh(u) = u + u^3/3! + u^5/5! + ..., for 0 <= u <= PI: the sum from the
\* k-th term on, `term` being the (k-1)-th
RECURSIVE SinhSeries(_, _, _)
SinhSeries(u, term, k) ==
    IF k > 14 \/ term = 0 THEN 0
    ELSE LET next == MulFx(MulFx(term, u) \div (2 * k), u) \div (2 * k + 1)
         IN  next + SinhSeries(u, next, k + 1)

SinhFx(u) == u + SinhSeries(u, u, 1)

\* atan(2^-i) in fixed point, i = 0..26
AtanTable ==
    <<52707179, 31114864, 16440240, 8345322, 4188855, 2096470, 1048491, 524277,
      262143, 131072, 65536, 32768, 16384, 8192, 4096, 2048, 1024, 512, 256, 128,
      64, 32, 16, 8, 4, 2, 1>>

\* atan(y / x) by rotating (x, y) onto the x axis through the angles atan(2^-i)
RECURSIVE AtanRotate(_, _, _, _)
AtanRotate(x, y, z, i) ==
    IF i >= Len(AtanTable) THEN z
    ELSE IF y >= 0
         THEN AtanRotate(x + (y \div 2^i), y - (x \div 2^i), z + AtanTable[i + 1], i + 1)
         ELSE AtanRotate(x - (y \div 2^i), y + (x \div 2^i), z - AtanTable[i + 1], i + 1)

AtanFx(s) == AtanRotate(FxOne, s, 0, 0)

\* |latitude| in thousandths of a degree, for a latitude between the edges of the map
LatMilliDeg(lat) ==
    LET t   == Abs(2^(ZoomCap - 1) - lat.v) * 2^(27 - ZoomCap)   \* |1 - 2 y / zz|
        phi == AtanFx(SinhFx(MulFx(PiFx, t)))                    \* radians
        q   == MulFx(phi, QuarterDegPerRadFx)                    \* degrees / 4
    IN  (q \div FxOne) * 4000 + ((((q % FxOne) \div 2^7) * 4000 + 2^18) \div 2^19)

\* format!("{:.3}", lat)
FormatLat3(lat) ==
    CASE lat.k = "nan"  -> "NaN"
      [] lat.k = "inf"  -> "inf"
      [] lat.k = "ninf" -> "-inf"
      [] OTHER          -> Fixed3(lat.v > 2^(ZoomCap - 1), LatMilliDeg(lat))

\* ------------------------------------------ the threads (SpecThreads)
\* tests::test_multithreading: four threads are spawned, each owning one
\* Sender of one mpsc channel; each calls one function, sends its tagged
\* result and ends, which drops its Sender.  The main thread receives in a
\* `for` loop, which ends when the queue is empty and no Sender is left.

Threads == 1..4

\* src/src/lib.rs 265-266: (format!("{:.3}", ln), format!("{:.3}", lt)) of tile2lonlat(4376, 2932, 13)
Thread1Text ==
    LET g == tile2lonlat(ToU32(4376), ToU32(2932), 13)
    IN  <<FormatLon3(g[1]), FormatLat3(g[2])>>

\* src/src/lib.rs 270-271: (x.to_string(), y.to_string()) of
\* lonlat2tile(12.3046875, 45.460130637921, 13).  On these two f64 values the
\* rounding does not fall below: tests::test_l2t_basic (line 246) records that
\* the value cast to y is not under 2932.
Thread2Text ==
    LET t == lonlat2tile(TestLon, TestLat, 13, 0)
    IN  <<U32Str(t[1]), U32Str(t[2])>>

\* src/src/lib.rs 275-276: (x.to_string(), y.to_string()) of the second tile
\* of zoom_in(1, 1), in a build of kind b; nothing is sent if zoom_in panics
Thread3Message ==
    [b \in Builds |->
        LET r == zoom_in(b, ToU32(1), ToU32(1))
        IN  [panic |-> r.panic,
             msg   |-> IF r.panic THEN << >>
                       ELSE <<3, <<U32Str(r.val[2][1]), U32Str(r.val[2][2])>>>>]]

\* src/src/lib.rs 280-281: (x.to_string(), y.to_string()) of zoom_out(5, 7)
Thread4Text ==
    LET t == zoom_out(ToU32(5), ToU32(7))
    IN  <<U32Str(t[1]), U32Str(t[2])>>

\* src/src/lib.rs 265-266, 270-271, 275-276, 280-281: what thread i computes
\* and sends
Message(i, b) ==
    CASE i = 1 -> [panic |-> FALSE, msg |-> <<1, Thread1Text>>]
      [] i = 2 -> [panic |-> FALSE, msg |-> <<2, Thread2Text>>]
      [] i = 3 -> Thread3Message[b]
      [] i = 4 -> [panic |-> FALSE, msg |-> <<4, Thread4Text>>]

\* a send that keeps only the newest message
Send_overwrite(q, m) == <<m>>

\* Sender::send on a channel whose Receiver is alive: the message joins the
\* end of the queue (the channel is unbounded: send never blocks)
Send(q, m) == Append(q, m)

\* src/src/lib.rs 285-291: the loop's assertion on a received message
Expected(m) ==
    CASE m[1] = 1 -> m[2] = <<"12.305", "45.460">>
      [] m[1] = 2 -> m[2] = <<"4376", "2932">>
      [] m[1] = 3 -> m[2] = <<"3", "2">>
      [] m[1] = 4 -> m[2] = <<"2", "3">>
      [] OTHER    -> FALSE

InitThreads ==
    /\ build \in Builds
    /\ op = None
    /\ arg = <<U32Zero, U32Zero>>
    /\ zi = NoZi
    /\ zo = << >>
    /\ zoom = 0
    /\ steps = 0
    /\ geo = <<F64Zero, F64Zero>>
    /\ dev = 0
    /\ tpc = [i \in Threads |-> "run"]
    /\ tval = [i \in Threads |-> << >>]
    /\ chan = << >>
    /\ txs = 4
    /\ rpc = "loop"
    /\ got = << >>

\* thread i calls its function and builds its message; a panic unwinds the
\* thread, which drops its Sender
Run(i) ==
    /\ tpc[i] = "run"
    /\ \E r \in {Message(i, build)} :
          IF r.panic
            THEN /\ tpc' = [tpc EXCEPT ![i] = "panicked"]
                 /\ txs' = txs - 1
                 /\ UNCHANGED tval
            ELSE /\ tpc' = [tpc EXCEPT ![i] = "send"]
                 /\ tval' = [tval EXCEPT ![i] = r.msg]
                 /\ UNCHANGED txs
    /\ UNCHANGED <<build, op, arg, zi, zo, zoom, steps, convVars, chan, rpc, got>>

\* thread i sends: tx.send(..).unwrap() panics when the Receiver is gone
SendStep(i) ==
    /\ tpc[i] = "send"
    /\ IF rpc = "loop"
         THEN /\ chan' = Send(chan, tval[i])
              /\ tpc' = [tpc EXCEPT ![i] = "exit"]
              /\ UNCHANGED txs
         ELSE /\ tpc' = [tpc EXCEPT ![i] = "panicked"]
              /\ txs' = txs - 1
              /\ UNCHANGED chan
    /\ UNCHANGED <<build, op, arg, zi, zo, zoom, steps, convVars, tval, rpc, got>>

\* thread i's closure ends: its Sender is dropped
Exit(i) ==
    /\ tpc[i] = "exit"
    /\ tpc' = [tpc EXCEPT ![i] = "done"]
    /\ txs' = txs - 1
    /\ UNCHANGED <<build, op, arg, zi, zo, zoom, steps, convVars, tval, chan, rpc, got>>

\* the loop takes the next message and checks it
Receive ==
    /\ rpc = "loop"
    /\ chan # << >>
    /\ chan' = Tail(chan)
    /\ IF Expected(Head(chan))
         THEN got' = Append(got, Head(chan)) /\ UNCHANGED rpc
         ELSE rpc' = "panicked" /\ UNCHANGED got
    /\ UNCHANGED <<build, op, arg, zi, zo, zoom, steps, convVars, tpc, tval, txs>>

\* the loop ends: nothing is queued and every Sender has been dropped
ReceiveEnd ==
    /\ rpc = "loop"
    /\ chan = << >>
    /\ txs = 0
    /\ rpc' = "done"
    /\ UNCHANGED <<build, op, arg, zi, zo, zoom, steps, convVars, tpc, tval, chan, txs, got>>

ThreadStep(i) == Run(i) \/ SendStep(i) \/ Exit(i)

NextThreads == (\E i \in Threads : ThreadStep(i)) \/ Receive \/ ReceiveEnd

\* the scheduler runs every spawned thread, and the main thread, again and again
SpecThreads ==
    /\ InitThreads
    /\ [][NextThreads]_vars
    /\ \A i \in Threads : WF_vars(ThreadStep(i))
    /\ WF_vars(Receive)
    /\ WF_vars(ReceiveEnd)

\* ---------------------------------------------------- exact arithmetic
\* What the claims compare the results with: the integer relation c = 2a + k
\* (k = 0 or 1), stated on the halves without any wrapping.  With
\* d = c.hi - 2 a.hi it reads d * 2^16 = 2 a.lo + k - c.lo, and the right side
\* lies strictly between -2^16 and 2^17, so d is 0 or 1.
IsTwicePlus(c, a, k) ==
    LET d == c[1] - 2 * a[1]
    IN  /\ d \in {0, 1}
        /\ d * Half = 2 * a[2] + k - c[2]

\* 2a + 1 fits a u32, i.e. a < 2^31
DoubleFits(a) == a[1] < Half \div 2

\* the four children of (x, y), in the order top-left, top-right, bottom-left,
\* bottom-right: ((2x, 2y), (2x+1, 2y), (2x, 2y+1), (2x+1, 2y+1))
IsQuadOf(q, x, y) ==
    /\ Len(q) = 4
    /\ IsTwicePlus(q[1][1], x, 0) /\ IsTwicePlus(q[1][2], y, 0)
    /\ IsTwicePlus(q[2][1], x, 1) /\ IsTwicePlus(q[2][2], y, 0)
    /\ IsTwicePlus(q[3][1], x, 0) /\ IsTwicePlus(q[3][2], y, 1)
    /\ IsTwicePlus(q[4][1], x, 1) /\ IsTwicePlus(q[4][2], y, 1)

\* p = floor(a / 2): a = 2p or a = 2p + 1
IsHalfOf(p, a) == IsTwicePlus(a, p, 0) \/ IsTwicePlus(a, p, 1)


TypeOK ==
    /\ build \in Builds
    /\ IsU32(arg[1]) /\ IsU32(arg[2])
    /\ \A i \in 1..Len(zi.val) : IsU32(zi.val[i][1]) /\ IsU32(zi.val[i][2])
    /\ \A i \in 1..Len(zo) : IsU32(zo[i][1]) /\ IsU32(zo[i][2])

\* ---------------------------------------------------------------- claims

\* C1 (as claimed): for every u32 tile (x, y), zoom_in(x, y) returns four
\* tiles and zoom_out of each of them is (x, y) again.
C1_QuadAllU32 ==
    op = "in_out" =>
        /\ ~zi.panic
        /\ Len(zo) = 4
        /\ \A i \in 1..4 : zo[i] = arg

\* C2: for every tile whose doubled coordinates fit a u32, zoom_in returns
\* exactly ((2x, 2y), (2x+1, 2y), (2x, 2y+1), (2x+1, 2y+1)), in that order,
\* in either build; zoom_in(1, 1) is ((2, 2), (3, 2), (2, 3), (3, 3)).
C2_ZoomInQuad ==
    (op \in {"zoom_in", "in_out"} /\ DoubleFits(arg[1]) /\ DoubleFits(arg[2])) =>
        /\ ~zi.panic
        /\ IsQuadOf(zi.val, arg[1], arg[2])
        /\ arg = Tile(1, 1) => zi.val = <<Tile(2, 2), Tile(3, 2), Tile(2, 3), Tile(3, 3)>>

\* C2's case: zoom_in has returned on the largest x whose double fits, 2^31 - 1
C2_Witness ==
    /\ op = "zoom_in"
    /\ arg = <<<<Half \div 2 - 1, Half - 1>>, ToU32(5)>>
    /\ Len(zi.val) = 4
    /\ zi.val[2] = <<U32Max, ToU32(10)>>

\* C3: zoom_out(x, y) is (floor(x/2), floor(y/2)) for every u32 pair, the x
\* half depending on x alone and the y half on y alone; zoom_out(0, 0) is
\* (0, 0) and zoom_out(5, 7) is (2, 3).
C3_ZoomOutHalves ==
    op = "zoom_out" =>
        /\ Len(zo) = 1
        /\ IsHalfOf(zo[1][1], arg[1])
        /\ IsHalfOf(zo[1][2], arg[2])
        /\ \A t \in SampleTile :
              /\ t[1] = arg[1] => zoom_out(t[1], t[2])[1] = zo[1][1]
              /\ t[2] = arg[2] => zoom_out(t[1], t[2])[2] = zo[1][2]
        /\ arg = Tile(0, 0) => zo[1] = Tile(0, 0)
        /\ arg = Tile(5, 7) => zo[1] = Tile(2, 3)

\* C3's case: zoom_out has returned on (u32::MAX, 5)
C3_Witness ==
    /\ op = "zoom_out"
    /\ arg = <<U32Max, ToU32(5)>>
    /\ zo = << <<<<Half \div 2 - 1, Half - 1>>, ToU32(2)>> >>

\* C6 (as claimed): for every pair of u32 inputs zoom_in returns normally and
\* the tiles it returns hold the exact integers 2x, 2x+1, 2y, 2y+1.
C6_ZoomInTotalExact ==
    op = "zoom_in" =>
        /\ ~zi.panic
        /\ IsQuadOf(zi.val, arg[1], arg[2])

\* the position of (x, y) among the children of its parent: 1 + (x mod 2) + 2 (y mod 2)
ParityIndex(t) == 1 + (t[1][2] % 2) + 2 * (t[2][2] % 2)

\* C7: for every tile (x, y), exactly one of the four tiles of
\* zoom_in(zoom_out(x, y)) is (x, y), the one at the position the parities of
\* x and y select; and for each of the four positions there is a tile that
\* the tile at this position is not.
C7_OneChildIsOriginal ==
    /\ op = "out_in" =>
          /\ ~zi.panic
          /\ Len(zi.val) = 4
          /\ {i \in 1..4 : zi.val[i] = arg} = {ParityIndex(arg)}
    /\ \A i \in 1..4 : \E t \in SampleTile :
          LET p == zoom_out(t[1], t[2])
          IN  zoom_in(build, p[1], p[2]).val[i] # t

\* C7's case: zoom_out then zoom_in on (5, 7), which comes back in the fourth place only
C7_Witness ==
    /\ op = "out_in"
    /\ arg = Tile(5, 7)
    /\ zo = <<Tile(2, 3)>>
    /\ zi.val[4] = arg
    /\ zi.val[1] # arg

\* C9: on a walk from the root (0, 0) of zoom 0 that goes down to a child
\* returned by zoom_in (zoom + 1, while zoom < 31) or up to the tile returned
\* by zoom_out (zoom - 1, while zoom > 0), zoom_in never fails and the tile
\* (x, y) always has x < 2^zoom and y < 2^zoom.
C9_NavValid ==
    /\ op # "nav_panic"
    /\ zoom \in 0..ZoomLimit
    /\ LtU32(arg[1], Pow2U32(zoom))
    /\ LtU32(arg[2], Pow2U32(zoom))

\* C9's case: the walk has gone down to zoom 31, to the tile (2^31 - 1, 2^31 - 1)
C9_Witness ==
    /\ op = "nav_in"
    /\ zoom = ZoomLimit
    /\ arg = <<<<Half \div 2 - 1, Half - 1>>, <<Half \div 2 - 1, Half - 1>>>>

\* C10: from any u32 tile, the tile after k applications of zoom_out is
\* (0, 0) for every k >= 32; once an application returns (0, 0) every later
\* one does; and an application returns the tile it was given only when that
\* tile is (0, 0).
C10_ZoomOutReachesRoot ==
    LET at(k) == IF k = 0 THEN arg ELSE zo[k]
        root  == <<U32Zero, U32Zero>>
    IN  /\ Len(zo) = steps
        /\ \A k \in 1..Len(zo) :
              /\ k >= 32 => zo[k] = root
              /\ at(k - 1) = root => zo[k] = root
              /\ zo[k] = at(k - 1) => zo[k] = root

\* C10's case: from (u32::MAX, 0) the 31st application is still off the root
\* and the 32nd is on it
C10_Witness ==
    /\ arg = <<U32Max, U32Zero>>
    /\ Len(zo) = 33
    /\ zo[31] = Tile(1, 0)
    /\ zo[32] = Tile(0, 0)
    /\ zo[33] = Tile(0, 0)

C5_InfinityToOrigin ==
    (op = "l2t" /\ geo = <<PosInf, NegInf>> /\ zoom = 0) => zo[1] = Tile(0, 0)

\* the message thread i sends when its call is made on its own, nothing else running
Sequential(i) == Message(i, build).msg

\* C8, at every moment: every message received is the one its thread's call
\* gives when made sequentially; no thread's message is received twice;
\* nothing panics; and the loop has ended only if every thread's message was
\* received and nothing is left in the queue.
C8_Safe ==
    /\ \A k \in 1..Len(got) :
          /\ got[k][1] \in Threads
          /\ got[k] = Sequential(got[k][1])
          /\ \A j \in 1..Len(got) : got[j][1] = got[k][1] => j = k
    /\ rpc # "panicked"
    /\ \A i \in Threads : tpc[i] # "panicked"
    /\ rpc = "done" =>
          /\ {got[k][1] : k \in 1..Len(got)} = Threads
          /\ chan = << >>
          /\ \A i \in Threads : tpc[i] = "done"

\* C8: in every interleaving of the four threads and the receiving loop,
\* C8_Safe holds throughout, and once every Sender is dropped the loop ends.
C8_ConcurrentCalls ==
    /\ []C8_Safe
    /\ (txs = 0) ~> (rpc = "done")

\* C8's case: the loop has ended having received the four messages with
\* thread 4's first and thread 1's last
C8_Witness ==
    /\ rpc = "done"
    /\ Len(got) = 4
    /\ got[1] = <<4, <<"2", "3">>>>
    /\ got[4] = <<1, <<"12.305", "45.460">>>>

====
